---- MODULE Spec2Model ----
(***************************************************************************)
(* Job pipeline of the AI social post generator (backend/services.py,      *)
(* backend/api.py, backend/storage.py, backend/utils.py).                  *)
(*                                                                         *)
(* One job is followed from create_post to the end of run_job and through  *)
(* later regenerate requests.  Every coroutine is cut at its suspension   *)
(* points (the calls to the scrape, text and image ports); the code        *)
(* between two suspension points is one atomic action, as it is on the     *)
(* asyncio event loop.  The environment chooses what each port call        *)
(* returns and whether each file write succeeds.                           *)
(***************************************************************************)
EXTENDS Integers, Sequences, FiniteSets, Bags, TLC

VARIABLES
    jobDir,        \* tmp/{job_id}/ and tmp/{job_id}/images/ exist
    metadataFile,  \* tmp/{job_id}/metadata.json
    status,        \* Job.status ("none" while no Job row exists)
    error,         \* Job.error ("" for None)
    result_path,   \* Job.result_path is set
    scrapeFile,    \* tmp/{job_id}/scrape.json
    summaryFile,   \* tmp/{job_id}/summary.txt
    resultFile,    \* tmp/{job_id}/result.json
    imageFile,     \* tmp/{job_id}/images/{A,B}.png
    runPc,         \* position of the run_job task
    scrapeCall,    \* outcome of run_job's scrape_url call ("none" before it returns)
    draftCall,     \* what the text port answered to run_job's Draft Variants prompt
    variants,      \* run_job's local `variants`
    imgIdx,        \* generate_images_with_langchain: index of the loop variable
    imgAttempt,    \* generate_images_with_langchain: 1 = first call, 2 = fallback call
    result,        \* run_job's local `result` (None until it is built)
    sweepTodo,     \* run_job's local `missing`, the part not yet retried
    imageCalls,    \* outcomes of the image port calls made by run_job, per variant
    writeErrors,   \* artifacts whose write failed inside run_job
    tasks,         \* the regenerate_content tasks that have not returned (a bag)
    pendingUpdates, \* update_job_status callbacks queued and not yet run
    nRegen,        \* regenerate requests accepted so far
    regenRet,      \* what regenerate_content returned, in the step in which it returns
    response,      \* the HTTP response, in the step in which a handler sends it
    fnIn,          \* the argument of a call of _extract_json_from_text or moderate_content
    fnOut          \* what that call returned or raised (NoOutput before it)

vars == << jobDir, metadataFile, scrapeCall, draftCall, status, error, result_path, scrapeFile, summaryFile, resultFile,
           imageFile, runPc, variants, imgIdx, imgAttempt, result, sweepTodo,
           imageCalls, writeErrors, tasks, pendingUpdates, nRegen, regenRet, response,
           fnIn, fnOut >>

jobVars  == << status, error, result_path >>
fileVars == << scrapeFile, summaryFile, resultFile, imageFile >>
dirVars  == << jobDir, metadataFile >>
runVars  == << runPc, scrapeCall, draftCall, variants, imgIdx, imgAttempt, result, sweepTodo, imageCalls, writeErrors >>
regenVars == << tasks, pendingUpdates, nRegen >>
fnVars   == << fnIn, fnOut >>

(***************************************************************************)
(* Bounds                                                                  *)
(***************************************************************************)
\* regenerate requests accepted for the job
MaxRegen == 2

(***************************************************************************)
(* Values                                                                  *)
(***************************************************************************)
VariantSet == {"A", "B"}

Absent    == [state |-> "absent"]      \* the file does not exist
Truncated == [state |-> "truncated"]   \* opened for writing, the write did not finish
None      == [py |-> "None"]           \* Python None
EmptyDict == [py |-> "{}"]             \* Python {}

\* what the environment does to one file write
WriteFaults == {"ok", "open_fails", "write_fails"}
\* what a port does on one call: it returns or it raises
PortOutcomes == {"ok", "fail"}
\* what the image port does on one call: it returns image bytes, it raises,
\* it returns b""
ImageOutcomes == {"ok", "fail", "empty"}
\* what the text port returns to the Draft Variants prompt: a JSON object
\* with complete entries A and B, one whose entries carry two hashtags, one
\* whose entries are empty objects, text that is no JSON, nothing
DraftResponses == {"json_ab", "json_two_tags", "json_bare", "garbage", "empty"}
\* what a call of the text port for the Draft Variants prompt does: it
\* returns one of these or a JSON object whose texts have more than 1300
\* characters, or it raises
DraftOutcomes == DraftResponses \cup {"json_long", "raises"}
\* what the text port returns to one moderation prompt
ModerationResponses == {"pass", "reject", "empty"}
\* url given to create_post, as is_valid_url sees it
Urls == {"wellformed", "malformed"}
\* create_job: range(3) attempts of the reachability check
ReachAttempts == 3
\* what the url answers on each attempt of the reachability check
AttemptOutcomes == [1..ReachAttempts -> PortOutcomes]

\* a validation of the regenerate type that lets every string through
ScopesUnchecked == {"text", "image", "both", "all"}

\* regenerate_post: the regenerate types
Scopes == {"text", "image", "both"}

\* a check of the status that lets a completed job be cancelled
CancellableOrCompleted == {"queued", "in_progress", "completed"}

\* cancel_post: the statuses a job can be cancelled in
Cancellable == {"queued", "in_progress"}

\* no handler answers, no regenerate_content returns in this step
NoResponse == [op |-> "none"]
Silent == response' = NoResponse /\ regenRet' = "none"
Responds(r) == response' = r /\ regenRet' = "none"

\* the path of the image file on disk, in place of the API url
LocalPath(v) == "./tmp/job/images/" \o v \o ".png"

\* f"/api/v1/images/{job_id}/{variant_id}.png"
ApiUrl(v) == "/api/v1/images/job/" \o v \o ".png"

(***************************************************************************)
(* backend/utils.py, backend/storage.py                                    *)
(***************************************************************************)
\* safe_write_json: open(file_path, 'w') truncates, json.dump writes; every
\* exception is swallowed and reported as False.
safe_write_json(old, data, fault) ==
    CASE fault = "ok"          -> [file |-> [state |-> "complete", json |-> data], ok |-> TRUE]
      [] fault = "open_fails"  -> [file |-> old, ok |-> FALSE]
      [] fault = "write_fails" -> [file |-> Truncated, ok |-> FALSE]

\* safe_read_json without the exception handler's None for a truncated file:
\* whatever was read is returned
safe_read_json_partial(file) ==
    IF file.state = "complete" THEN file.json
    ELSE IF file.state = "truncated" THEN [partial |-> TRUE]
    ELSE None

\* safe_read_json: json.load of a missing or truncated file raises, and the
\* exception is turned into None.
safe_read_json(file) ==
    IF file.state = "complete" THEN file.json ELSE None

save_json(old, data, fault) == safe_write_json(old, data, fault)

read_json(file) == safe_read_json(file)

\* save_image: open(file_path, 'wb') truncates, f.write writes; every
\* exception is swallowed and reported as False.
save_image(old, data, fault) ==
    CASE fault = "ok"          -> [file |-> [state |-> "complete", bytes |-> data], ok |-> TRUE]
      [] fault = "open_fails"  -> [file |-> old, ok |-> FALSE]
      [] fault = "write_fails" -> [file |-> Truncated, ok |-> FALSE]

\* the bytes the image port returned: `who` tags the call
ImageData(outcome, who) ==
    IF outcome = "empty" THEN "empty" ELSE who

\* an existence check that looks at the images directory, not at the file
ExistsDir(file) == TRUE

\* Path.exists()
Exists(file) == file # Absent

(***************************************************************************)
(* backend/services.py: stages                                             *)
(***************************************************************************)
\* one variant dict; hashtags is the length of the list
Variant(id, text, hashtags, comment, alt) ==
    [id |-> id, text |-> text, hashtags |-> hashtags, suggested_comment |-> comment,
     alt_text |-> alt, image_path |-> ApiUrl(id)]

\* a fallback that makes the first variant only
create_fallback_variant_A ==
    << Variant("A", "fallback_A", 3, "fallback_comment", "fallback_alt") >>

\* create_fallback_variants
create_fallback_variants ==
    << Variant("A", "fallback_A", 3, "fallback_comment", "fallback_alt"),
       Variant("B", "fallback_B", 3, "fallback_comment", "fallback_alt") >>

\* the entry of a variant in the parsed response: what the model wrote, with
\* the defaults of variant_data.get for the keys it left out
ParsedVariant(resp, who, id) ==
    CASE resp = "json_ab"       -> Variant(id, who \o "_" \o id, 3, "comment", "alt")
      [] resp = "json_two_tags" -> Variant(id, who \o "_" \o id, 2, "comment", "alt")
      [] resp = "json_bare"     -> Variant(id, "", 0, "", "")
      [] resp = "json_long"     -> Variant(id, who \o "_" \o id \o "_long", 3, "comment", "alt")

\* the texts of more than 1300 characters, the maximum the prompt asks for
TooLong(text) ==
    text \in {who \o "_" \o id \o "_long" : who \in {"run"}, id \in VariantSet}

\* generate_post_variants_with_langchain; `who` tags the text the model
\* wrote for this call.  An empty response and text that is no JSON object
\* with A and B lead to the fallback variants.
generate_post_variants_with_langchain(resp, who) ==
    IF resp \in {"json_ab", "json_two_tags", "json_bare", "json_long"}
    THEN << ParsedVariant(resp, who, "A"), ParsedVariant(resp, who, "B") >>
    ELSE create_fallback_variants

\* Everything the text port may answer to a moderation prompt: a JSON object
\* with "status" pass, review, reject or flagged (a word outside the
\* vocabulary) and "confidence" high; the object {} ("no_status"); an empty
\* or blank text; text that is no JSON ("garbage"); and text that is JSON
\* but no object, such as [] ("json_list").
ModerationAnswers ==
    ModerationResponses \cup {"review", "flagged", "no_status", "garbage", "json_list"}

\* moderate_content, one variant: the status of its verdict
ModerateOne(resp) ==
    IF resp \in {"empty", "garbage", "no_status"} THEN "review" ELSE resp

\* moderate_content, one variant: the confidence of its verdict
Confidence(resp) ==
    IF resp \in {"empty", "garbage"} THEN "low"
    ELSE IF resp = "no_status" THEN "medium"
    ELSE "high"

\* moderate_content: json.loads returned something without .get, the
\* AttributeError is not a JSONDecodeError and leaves the loop
NotAnObject(resp) ==
    resp = "json_list"

\* moderate_content, overall status
OverallStatus(verdicts) ==
    IF \E i \in DOMAIN verdicts : verdicts[i] = "reject" THEN "reject"
    ELSE IF \E i \in DOMAIN verdicts : verdicts[i] = "review" THEN "review"
    ELSE "pass"

\* moderate_content(variants), the text port answering resps[i] for the
\* i-th variant: the returned dict.  The outer handler turns any exception
\* into a review without verdicts.
moderate_content(ids, resps) ==
    IF \E i \in DOMAIN ids : NotAnObject(resps[i])
    THEN [status |-> "review", variants |-> << >>, notes |-> << "Moderation failed" >>]
    ELSE [status |-> OverallStatus([i \in DOMAIN ids |-> ModerateOne(resps[i])]),
          variants |-> [i \in DOMAIN ids |->
                          [variant_id |-> ids[i], status |-> ModerateOne(resps[i]),
                           confidence |-> Confidence(resps[i])]],
          notes |-> << >>]

\* run_job: the result dict
MakeResult(vs, mod) ==
    [job_id |-> "job", provenance |-> "provenance", post_variants |-> vs,
     providers |-> "providers", moderation |-> mod]

\* the check of run_job with `not` forgotten: the variants whose image exists
MissingInverted(vs, images) ==
    SelectSeq([i \in DOMAIN vs |-> vs[i].id], LAMBDA v : images[v] # Absent)

\* run_job: the variants whose image file does not exist, in list order
Missing(vs, images) ==
    SelectSeq([i \in DOMAIN vs |-> vs[i].id], LAMBDA v : ~Exists(images[v]))

(***************************************************************************)
(* Response Normalizer: _extract_json_from_text                            *)
(*                                                                         *)
(* A text is a sequence of tokens: the characters the normalizer and the   *)
(* two parsers tell apart, each under a name, the digit "1", and maximal   *)
(* runs of letters ("a", "json", "true", ...).  Texts never hold two       *)
(* digits or two string literals side by side, and a backslash only before *)
(* a quote or a backslash.                                                 *)
(***************************************************************************)
DQ == "dquote"
SQ == "squote"
BS == "backslash"
BT == "backtick"
NL == "newline"
SP == "space"
LBRACE == "lbrace"
RBRACE == "rbrace"
LBRACK == "lbrack"
RBRACK == "rbrack"
COLON == "colon"
COMMA == "comma"

\* [a-zA-Z]+
Letters == {"a", "b", "json", "true", "false", "null", "True", "False", "None",
            "summary", "bullets", "Key", "point", "Summary", "generation", "failed",
            "Error", "occurred"}

\* Python values: str, int, bool and None with their text in s; a list with
\* its elements in items; a dict with its keys and values in items, in
\* insertion order: << key, value, key, value, ... >>
NoValue == [t |-> "none", s |-> << >>, items |-> << >>]
Str(s) == [t |-> "str", s |-> s, items |-> << >>]
Num == [t |-> "num", s |-> << "1" >>, items |-> << >>]
Bool(b) == [t |-> "bool", s |-> << b >>, items |-> << >>]
PyNone == [t |-> "null", s |-> << >>, items |-> << >>]
Arr(items) == [t |-> "arr", s |-> << >>, items |-> items]
Obj(items) == [t |-> "obj", s |-> << >>, items |-> items]

\* what a parser returns: the value and the position after it, or failure
Fail == [ok |-> FALSE, val |-> NoValue, next |-> 0]
Parsed(v, n) == [ok |-> TRUE, val |-> v, next |-> n]

\* the words for the constants in each syntax
Keyword(d, tok) ==
    IF d = "json"
    THEN CASE tok = "true" -> Bool("true") [] tok = "false" -> Bool("false")
           [] tok = "null" -> PyNone [] OTHER -> NoValue
    ELSE CASE tok = "True" -> Bool("true") [] tok = "False" -> Bool("false")
           [] tok = "None" -> PyNone [] OTHER -> NoValue

\* the quotes that open a string, and what a backslash may escape
Quotes(d) == IF d = "json" THEN {DQ} ELSE {DQ, SQ}
Escapable(d) == IF d = "json" THEN {DQ, BS} ELSE {DQ, SQ, BS}

\* a dict key: JSON takes strings, Python anything hashable
KeyAllowed(d, k) == IF d = "json" THEN k.t = "str" ELSE k.t \notin {"arr", "obj"}

\* d[k] = v: a key met again keeps its place and takes the new value
Put(items, k, v) ==
    IF \E i \in DOMAIN items : i % 2 = 1 /\ items[i] = k
    THEN [i \in DOMAIN items |-> IF i % 2 = 0 /\ items[i - 1] = k THEN v ELSE items[i]]
    ELSE items \o << k, v >>

RECURSIVE SkipWs(_, _)
\* the first position from i on that holds no white space
SkipWs(s, i) ==
    IF i <= Len(s) /\ s[i] \in {SP, NL} THEN SkipWs(s, i + 1) ELSE i

RECURSIVE ParseString(_, _, _, _, _)
\* a string literal opened with quote q, from position i on
ParseString(d, s, i, q, acc) ==
    IF i > Len(s) THEN Fail
    ELSE IF s[i] = NL THEN Fail
    ELSE IF s[i] = q THEN Parsed(Str(acc), i + 1)
    ELSE IF s[i] = BS
    THEN IF i + 1 <= Len(s) /\ s[i + 1] \in Escapable(d)
         THEN ParseString(d, s, i + 2, q, Append(acc, s[i + 1]))
         ELSE Fail
    ELSE ParseString(d, s, i + 1, q, Append(acc, s[i]))

RECURSIVE ParseValue(_, _, _)
RECURSIVE ParseElements(_, _, _, _, _)
RECURSIVE ParseMembers(_, _, _, _, _)
\* one value at position i, in the syntax d ("json" for json.loads, "python"
\* for ast.literal_eval)
ParseValue(d, s, i) ==
    IF i > Len(s) THEN Fail
    ELSE IF s[i] = LBRACE THEN ParseMembers(d, s, i + 1, << >>, FALSE)
    ELSE IF s[i] = LBRACK THEN ParseElements(d, s, i + 1, << >>, FALSE)
    ELSE IF s[i] \in Quotes(d) THEN ParseString(d, s, i + 1, s[i], << >>)
    ELSE IF s[i] = "1" THEN Parsed(Num, i + 1)
    ELSE IF Keyword(d, s[i]) # NoValue THEN Parsed(Keyword(d, s[i]), i + 1)
    ELSE Fail

\* the elements of a list after "[": Python takes a comma before "]", JSON
\* does not
ParseElements(d, s, i, acc, afterComma) ==
    LET j == SkipWs(s, i) IN
    IF j > Len(s) THEN Fail
    ELSE IF s[j] = RBRACK
    THEN IF afterComma /\ d = "json" THEN Fail ELSE Parsed(Arr(acc), j + 1)
    ELSE LET r == ParseValue(d, s, j) IN
         IF ~r.ok THEN Fail
         ELSE LET k == SkipWs(s, r.next) IN
              IF k > Len(s) THEN Fail
              ELSE IF s[k] = COMMA
              THEN ParseElements(d, s, k + 1, Append(acc, r.val), TRUE)
              ELSE IF s[k] = RBRACK THEN Parsed(Arr(Append(acc, r.val)), k + 1)
              ELSE Fail

\* the items of a dict after "{"
ParseMembers(d, s, i, acc, afterComma) ==
    LET j == SkipWs(s, i) IN
    IF j > Len(s) THEN Fail
    ELSE IF s[j] = RBRACE
    THEN IF afterComma /\ d = "json" THEN Fail ELSE Parsed(Obj(acc), j + 1)
    ELSE LET key == ParseValue(d, s, j) IN
         IF ~key.ok THEN Fail
         ELSE IF ~KeyAllowed(d, key.val) THEN Fail
         ELSE LET c == SkipWs(s, key.next) IN
              IF c > Len(s) THEN Fail
              ELSE IF s[c] # COLON THEN Fail
              ELSE LET r == ParseValue(d, s, SkipWs(s, c + 1)) IN
                   IF ~r.ok THEN Fail
                   ELSE LET k == SkipWs(s, r.next) IN
                        IF k > Len(s) THEN Fail
                        ELSE IF s[k] = COMMA
                        THEN ParseMembers(d, s, k + 1, Put(acc, key.val, r.val), TRUE)
                        ELSE IF s[k] = RBRACE
                        THEN Parsed(Obj(Put(acc, key.val, r.val)), k + 1)
                        ELSE Fail

\* json.loads (d = "json") and ast.literal_eval (d = "python"): the whole
\* text is one value; ok = FALSE stands for the exception
Loads(d, s) ==
    LET r == ParseValue(d, s, SkipWs(s, 1)) IN
    IF r.ok /\ SkipWs(s, r.next) = Len(s) + 1 THEN r ELSE Fail

\* re.sub(r"\A```[a-zA-Z]*\n", "", text)
StripLeadingFence(s) ==
    IF Len(s) >= 4 /\ s[1] = BT /\ s[2] = BT /\ s[3] = BT
    THEN LET ends == {j \in 4..Len(s) : s[j] \notin Letters}
             j == CHOOSE m \in ends : \A n \in ends : m <= n
         IN IF ends # {} /\ s[j] = NL THEN SubSeq(s, j + 1, Len(s)) ELSE s
    ELSE s

\* text.rstrip(chars)
RStrip(s, chars) ==
    LET keep == {i \in DOMAIN s : s[i] \notin chars} IN
    IF keep = {} THEN << >>
    ELSE SubSeq(s, 1, CHOOSE m \in keep : \A n \in keep : n <= m)

\* text.strip()
Strip(s) ==
    LET keep == {i \in DOMAIN s : s[i] \notin {SP, NL}} IN
    IF keep = {} THEN << >>
    ELSE SubSeq(s, CHOOSE m \in keep : \A n \in keep : m <= n,
                   CHOOSE m \in keep : \A n \in keep : n <= m)

\* re.search(r"(\{.*\}|\[.*\])", text, flags=re.S): the leftmost opening
\* bracket that has its closing bracket somewhere after it, up to the last
\* such closing bracket; << >> when nothing matches
JsonLike(s) ==
    LET closer(i) == IF s[i] = LBRACE THEN RBRACE ELSE RBRACK
        starts == {i \in DOMAIN s : /\ s[i] \in {LBRACE, LBRACK}
                                    /\ \E j \in DOMAIN s : j > i /\ s[j] = closer(i)}
    IN IF starts = {} THEN << >>
       ELSE LET i == CHOOSE m \in starts : \A n \in starts : m <= n
                ends == {j \in DOMAIN s : j > i /\ s[j] = closer(i)}
            IN SubSeq(s, i, CHOOSE m \in ends : \A n \in ends : n <= m)

\* a last resort that leaves the quotes as they are
ReplaceNothing(s) ==
    s

\* candidate.replace: every single quote becomes a double quote
ReplaceQuotes(s) ==
    [i \in DOMAIN s |-> IF s[i] = SQ THEN DQ ELSE s[i]]

\* what a call returns or raises
NoVerdicts == [status |-> "none", variants |-> << >>, notes |-> << >>]
NoOutput == [kind |-> "none", val |-> NoValue, mod |-> NoVerdicts, log |-> << >>]
Returned(v) == [kind |-> "value", val |-> v, mod |-> NoVerdicts, log |-> << >>]
Raised(e) == [kind |-> e, val |-> NoValue, mod |-> NoVerdicts, log |-> << >>]

\* _extract_json_from_text(text)
extract_json_from_text(text) ==
    IF text = << >> THEN Raised("ValueError")
    ELSE LET stripped == RStrip(StripLeadingFence(text), {BT, NL})
             m == JsonLike(stripped)
             candidate == IF m # << >> THEN m ELSE Strip(stripped)
             strict == Loads("json", candidate)
             literal == Loads("python", candidate)
             retry == Loads("json", ReplaceQuotes(candidate))
         IN IF strict.ok THEN Returned(strict.val)
            ELSE IF literal.ok THEN Returned(literal.val)
            ELSE IF retry.ok THEN Returned(retry.val)
            ELSE Raised("ValueError")

(***************************************************************************)
(* Summarize: generate_summary_with_langchain                              *)
(***************************************************************************)
\* what the text port does with the summary prompt: it returns a text or
\* raises
PortText(text) == [kind |-> "text", text |-> text]
PortRaises == [kind |-> "raises", text |-> << >>]

\* `key in d` and d.get(key, default) of a dict
HasKey(d, key) ==
    \E i \in DOMAIN d.items : i % 2 = 1 /\ d.items[i] = Str(<< key >>)
Get(d, key, default) ==
    IF HasKey(d, key)
    THEN d.items[1 + CHOOSE i \in DOMAIN d.items : i % 2 = 1 /\ d.items[i] = Str(<< key >>)]
    ELSE default

\* the fallback for output of unexpected structure: the raw text and three
\* generic bullets
SummaryOfRawText(text) ==
    Obj(<< Str(<< "summary" >>), Str(text),
           Str(<< "bullets" >>), Arr(<< Str(<< "Key", SP, "point", SP, "1" >>),
                                        Str(<< "Key", SP, "point", SP, "2" >>),
                                        Str(<< "Key", SP, "point", SP, "3" >>) >>) >>)

\* the record of the outer handler
SummaryFailed ==
    Obj(<< Str(<< "summary" >>), Str(<< "Summary", SP, "generation", SP, "failed" >>),
           Str(<< "bullets" >>), Arr(<< Str(<< "Error", SP, "occurred" >>) >>) >>)

\* generate_summary_with_langchain(main_text), the text port answering resp:
\* a parsed dict with the key summary is returned as it is
generate_summary_with_langchain(resp) ==
    IF resp.kind = "raises" THEN SummaryFailed
    ELSE LET parsed == extract_json_from_text(resp.text) IN
         IF parsed.kind = "value" /\ parsed.val.t = "obj" /\ HasKey(parsed.val, "summary")
         THEN parsed.val
         ELSE SummaryOfRawText(resp.text)

\* run_job, f.write(summary_data.get("summary", ...)): write takes a str
Writable(summary_data) ==
    Get(summary_data, "summary", Str(<< "Summary", SP, "generation", SP, "failed" >>)).t = "str"

\* answers to the summary prompt: an object with summary and bullets, and
\* an object whose summary is null
SummaryAsAsked ==
    << LBRACE, DQ, "summary", DQ, COLON, SP, DQ, "a", DQ, COMMA, SP,
       DQ, "bullets", DQ, COLON, SP, LBRACK, DQ, "a", DQ, COMMA, SP, DQ, "b", DQ,
       COMMA, SP, DQ, "a", DQ, RBRACK, RBRACE >>
SummaryNull ==
    << LBRACE, DQ, "summary", DQ, COLON, SP, "null", RBRACE >>

(***************************************************************************)
(* Initial state: no Job row, no files, no task                            *)
(***************************************************************************)
NoJob ==
    /\ jobDir = FALSE
    /\ metadataFile = Absent
    /\ scrapeCall = "none"
    /\ draftCall = "none"
    /\ status = "none"
    /\ error = ""
    /\ result_path = FALSE
    /\ scrapeFile = Absent
    /\ summaryFile = Absent
    /\ resultFile = Absent
    /\ imageFile = [v \in VariantSet |-> Absent]
    /\ runPc = "idle"
    /\ variants = << >>
    /\ imgIdx = 1
    /\ imgAttempt = 1
    /\ result = None
    /\ sweepTodo = << >>
    /\ imageCalls = [v \in VariantSet |-> << >>]
    /\ writeErrors = {}
    /\ tasks = EmptyBag
    /\ pendingUpdates = 0
    /\ nRegen = 0
    /\ regenRet = "none"
    /\ response = NoResponse

\* no call of the normalizer or of moderate_content is followed
NoCall == [op |-> "none", text |-> << >>, of |-> NoValue, wrap |-> "none",
           quotes |-> "double", port |-> "returns",
      resps |-> << >>]

Init ==
    /\ NoJob
    /\ fnIn = NoCall
    /\ fnOut = NoOutput

(***************************************************************************)
(* POST /posts: create_post, create_job                                    *)
(***************************************************************************)
\* create_job: the loop ends at the first attempt that answers
Reachable(attempts) ==
    \E i \in 1..ReachAttempts : attempts[i] = "ok"

\* what one request of the reachability check does: it returns a status
\* below 400 ("ok"), returns a status of 400 or more, or raises
RequestOutcomes == {"ok", "status_error", "raises"}

\* One pass of the body of `for attempt in range(3)`: head, get and get2 are
\* what the HEAD request, the first GET and the second GET would do.  The
\* requests made, and whether the pass ends in `break`.
Attempt(head, get, get2) ==
    IF head = "raises"
    THEN \* `except Exception: resp = client.get(url)`
         IF get = "raises" THEN [ok |-> FALSE, requests |-> << "HEAD", "GET" >>]
         ELSE IF get = "ok" THEN [ok |-> TRUE, requests |-> << "HEAD", "GET" >>]
         ELSE \* `if status >= 400`: client.get(url) once more
              [ok |-> get2 = "ok", requests |-> << "HEAD", "GET", "GET" >>]
    ELSE IF head = "ok" THEN [ok |-> TRUE, requests |-> << "HEAD" >>]
    ELSE [ok |-> get = "ok", requests |-> << "HEAD", "GET" >>]

RECURSIVE ReachabilityLoop(_, _, _)
\* `for attempt in range(3)` from the i-th pass on (i = attempt + 1); script
\* holds what the three requests of each pass would do.  A pass that does
\* not break is followed by time.sleep(1 + attempt); after the last one the
\* `else` of the loop raises ValueError.
ReachabilityLoop(script, i, log) ==
    IF i > ReachAttempts THEN [reachable |-> FALSE, log |-> log]
    ELSE LET a == Attempt(script[3 * i - 2], script[3 * i - 1], script[3 * i]) IN
         IF a.ok
         THEN [reachable |-> TRUE,
               log |-> Append(log, [attempt |-> i, requests |-> a.requests, sleep |-> 0])]
         ELSE ReachabilityLoop(script, i + 1,
                  Append(log, [attempt |-> i, requests |-> a.requests,
                               sleep |-> 1 + (i - 1)]))

\* a create_job that makes the job directory before it checks the url
CreateRejectedAfterDir(detail) ==
    /\ Responds([op |-> "create", code |-> 400, detail |-> detail])
    /\ jobDir' = TRUE
    /\ UNCHANGED << metadataFile, status, runPc >>

\* create_job raises ValueError, create_post answers 400
CreateRejected(detail) ==
    /\ Responds([op |-> "create", code |-> 400, detail |-> detail])
    /\ UNCHANGED << jobDir, metadataFile, status, runPc >>

\* create_post: create_job validates the url, makes the directory, writes
\* metadata.json (a failed write is only logged) and adds the Job row; then
\* asyncio.create_task(run_job(job_id)).  Nothing in it suspends.
create_post(url, attempts, fault) ==
    /\ status = "none"
    /\ IF url = "malformed"
       THEN /\ fault = "ok"
            /\ CreateRejected("Invalid URL provided")
       ELSE IF ~Reachable(attempts)
       THEN /\ fault = "ok"
            /\ CreateRejected("URL reachability check failed")
       ELSE /\ jobDir' = TRUE
            /\ metadataFile' = save_json(metadataFile, "metadata", fault).file
            /\ status' = "queued"
            /\ runPc' = "start"
            /\ Responds([op |-> "create", code |-> 200, status |-> "queued"])
    /\ UNCHANGED << error, result_path, fileVars, scrapeCall, draftCall, variants, imgIdx,
                    imgAttempt, result, sweepTodo, imageCalls, writeErrors, regenVars >>
    /\ UNCHANGED fnVars

(***************************************************************************)
(* run_job                                                                 *)
(***************************************************************************)
\* a handler that sets the status and leaves the error out
RunFailedNoError(msg) ==
    /\ status' = "failed"
    /\ runPc' = "done"
    /\ UNCHANGED << error, result_path >>

\* run_job, `except Exception as e`: status failed, error str(e)
RunFailed(msg) ==
    /\ status' = "failed"
    /\ error' = msg
    /\ runPc' = "done"
    /\ UNCHANGED result_path

\* run_job up to the first await: the job row is read and set to in_progress
run_job_start ==
    /\ runPc = "start"
    /\ status' = "in_progress"
    /\ runPc' = "scrape"
    /\ UNCHANGED << error, result_path, fileVars, variants, imgIdx, imgAttempt,
                    result, sweepTodo, imageCalls, writeErrors, regenVars >>
    /\ Silent
    /\ UNCHANGED << scrapeCall, draftCall, dirVars >>
    /\ UNCHANGED fnVars

\* a scrape_url that returns an empty page where it should raise
ScrapeRaisedIgnored ==
    /\ scrapeFile' = [state |-> "complete", json |-> "empty_scrape"]
    /\ runPc' = "summarize"
    /\ UNCHANGED << jobVars, writeErrors >>

\* scrape_url raises Exception("Failed to scrape URL: ..."), which reaches
\* run_job's handler
ScrapeRaised ==
    /\ RunFailed("Failed to scrape URL")
    /\ UNCHANGED << scrapeFile, writeErrors >>

\* Step 1: scrape_url returns or raises; save_json(scrape_data, scrape_path)
run_job_scrape(outcome, fault) ==
    /\ runPc = "scrape"
    /\ IF outcome = "fail"
       THEN /\ fault = "ok"
            /\ ScrapeRaised
       ELSE LET w == save_json(scrapeFile, "scrape_data", fault) IN
            /\ scrapeFile' = w.file
            /\ writeErrors' = IF w.ok THEN writeErrors ELSE writeErrors \cup {"scrape"}
            /\ runPc' = "summarize"
            /\ UNCHANGED jobVars
    /\ UNCHANGED << summaryFile, resultFile, imageFile, variants, imgIdx, imgAttempt,
                    result, sweepTodo, imageCalls, regenVars >>
    /\ Silent
    /\ scrapeCall' = outcome
    /\ UNCHANGED << draftCall, dirVars >>
    /\ UNCHANGED fnVars

\* Step 2: generate_summary_with_langchain returns (it never raises); the
\* summary is written with a bare open()/write(), whose exception reaches
\* run_job's handler: an I/O error, or the TypeError of write() for a summary
\* that is no str, raised after open() has made the file.
run_job_summarize(resp, fault) ==
    /\ runPc = "summarize"
    /\ CASE fault = "ok" /\ Writable(generate_summary_with_langchain(resp)) ->
              /\ summaryFile' = [state |-> "complete", text |-> "summary"]
              /\ runPc' = "draft"
              /\ UNCHANGED << jobVars, writeErrors >>
         [] fault = "ok" /\ ~Writable(generate_summary_with_langchain(resp)) ->
              /\ RunFailed("write() argument must be str")
              /\ summaryFile' = Truncated
              /\ UNCHANGED writeErrors
         [] fault = "open_fails" ->
              /\ RunFailed("summary.txt: cannot open")
              /\ writeErrors' = writeErrors \cup {"summary"}
              /\ UNCHANGED summaryFile
         [] fault = "write_fails" ->
              /\ RunFailed("summary.txt: cannot write")
              /\ writeErrors' = writeErrors \cup {"summary"}
              /\ summaryFile' = Truncated
    /\ UNCHANGED << scrapeFile, resultFile, imageFile, variants, imgIdx, imgAttempt,
                    result, sweepTodo, imageCalls, regenVars >>
    /\ Silent
    /\ UNCHANGED << scrapeCall, draftCall, dirVars >>
    /\ UNCHANGED fnVars

\* Step 3: generate_post_variants_with_langchain returns (it never raises)
run_job_draft(resp) ==
    /\ runPc = "draft"
    /\ variants' = generate_post_variants_with_langchain(resp, "run")
    /\ imgIdx' = 1
    /\ imgAttempt' = 1
    /\ runPc' = "images"
    /\ UNCHANGED << jobVars, fileVars, result, sweepTodo, imageCalls, writeErrors,
                    regenVars >>
    /\ Silent
    /\ draftCall' = resp
    /\ UNCHANGED << scrapeCall, dirVars >>
    /\ UNCHANGED fnVars

\* Step 4: generate_images_with_langchain, one provider.generate_image call
\* of the loop returns or raises.  A second failure for a variant ends the
\* loop (return False); run_job ignores the returned value.  save_image
\* reports a failed write as False, which is not looked at: the loop goes on.
generate_images_with_langchain(outcome, fault) ==
    /\ runPc = "images"
    /\ LET v == variants[imgIdx].id
           w == save_image(imageFile[v], ImageData(outcome, "run"), fault)
       IN
       /\ imageCalls' = [imageCalls EXCEPT ![v] = Append(@, outcome)]
       /\ IF outcome = "fail"
          THEN /\ IF imgAttempt = 1
                  THEN /\ imgAttempt' = 2
                       /\ runPc' = "images"
                  ELSE /\ imgAttempt' = 1
                       /\ runPc' = "moderate"
               /\ UNCHANGED << imgIdx, imageFile, writeErrors >>
          ELSE /\ imageFile' = [imageFile EXCEPT ![v] = w.file]
               /\ writeErrors' = IF w.ok THEN writeErrors ELSE writeErrors \cup {"image_" \o v}
               /\ imgAttempt' = 1
               /\ IF imgIdx < Len(variants)
                  THEN /\ imgIdx' = imgIdx + 1
                       /\ runPc' = "images"
                  ELSE /\ imgIdx' = imgIdx
                       /\ runPc' = "moderate"
    /\ UNCHANGED << jobVars, scrapeFile, summaryFile, resultFile, variants, result,
                    sweepTodo, regenVars >>
    /\ Silent
    /\ UNCHANGED << scrapeCall, draftCall, dirVars >>
    /\ UNCHANGED fnVars

\* a completion that records a note in the error field
RunCompletedWithNote ==
    /\ status' = "completed"
    /\ result_path' = TRUE
    /\ runPc' = "done"
    /\ error' = "completed without errors"

\* run_job, the tail after the image checks: status completed, result_path set
RunCompleted ==
    /\ status' = "completed"
    /\ result_path' = TRUE
    /\ runPc' = "done"
    /\ UNCHANGED error

\* `if still_missing` that logs the error and goes on to the tail of run_job
RunStillMissingIgnored ==
    RunCompleted

\* run_job, `if still_missing`: status failed with the list in the error
RunStillMissing ==
    RunFailed("Images missing after retry")

\* Steps 5 and 6: moderate_content returns (it never raises); the result is
\* built and saved, and the images are looked for.  With none missing the
\* job is completed at once; otherwise the retries start.
run_job_moderate(respA, respB, fault) ==
    /\ runPc = "moderate"
    /\ LET verdicts == << ModerateOne(respA), ModerateOne(respB) >>
           res == MakeResult(variants, OverallStatus(verdicts))
           w == save_json(resultFile, res, fault)
           missing == Missing(variants, imageFile)
       IN
       /\ result' = res
       /\ resultFile' = w.file
       /\ writeErrors' = IF w.ok THEN writeErrors ELSE writeErrors \cup {"result"}
       /\ sweepTodo' = missing
       /\ IF missing = << >>
          THEN RunCompleted
          ELSE /\ runPc' = "sweep"
               /\ UNCHANGED jobVars
    /\ UNCHANGED << scrapeFile, summaryFile, imageFile, variants, imgIdx, imgAttempt,
                    imageCalls, regenVars >>
    /\ Silent
    /\ UNCHANGED << scrapeCall, draftCall, dirVars >>
    /\ UNCHANGED fnVars

\* a loop that tries a missing image again until the port returns
AfterRetryUntilReturn(todo, outcome) ==
    IF outcome = "fail" THEN todo ELSE Tail(todo)

\* `for variant_id, img_path in missing`: one pass over the list, whatever
\* the call did
AfterRetry(todo, outcome) ==
    Tail(todo)

\* The retry of one missing image: provider.generate_image returns or raises
\* (the exception is logged and dropped), save_image's result is ignored.
\* After the last retry the result is saved again and the images are looked
\* for again: failed if one is still missing, completed otherwise.
run_job_sweep(outcome, fault, fault2) ==
    /\ runPc = "sweep"
    /\ LET v == Head(sweepTodo)
           rest == AfterRetry(sweepTodo, outcome)
           wi == save_image(imageFile[v], ImageData(outcome, "sweep"), fault)
           images == IF outcome # "fail" THEN [imageFile EXCEPT ![v] = wi.file] ELSE imageFile
           imgErr == IF outcome # "fail" /\ ~wi.ok THEN {"image_" \o v} ELSE {}
           wr == save_json(resultFile, result, fault2)
           still_missing == Missing(variants, images)
       IN
       /\ outcome = "fail" => fault = "ok"
       /\ imageCalls' = [imageCalls EXCEPT ![v] = Append(@, outcome)]
       /\ imageFile' = images
       /\ sweepTodo' = rest
       /\ IF rest # << >>
          THEN /\ fault2 = "ok"
               /\ writeErrors' = writeErrors \cup imgErr
               /\ runPc' = "sweep"
               /\ UNCHANGED << jobVars, resultFile >>
          ELSE /\ resultFile' = wr.file
               /\ writeErrors' = writeErrors \cup imgErr \cup
                                    (IF wr.ok THEN {} ELSE {"result"})
               /\ IF still_missing # << >> THEN RunStillMissing ELSE RunCompleted
    /\ UNCHANGED << scrapeFile, summaryFile, variants, imgIdx, imgAttempt, result,
                    regenVars >>
    /\ Silent
    /\ UNCHANGED << scrapeCall, draftCall, dirVars >>
    /\ UNCHANGED fnVars

(***************************************************************************)
(* POST /posts/{job_id}/cancel                                             *)
(***************************************************************************)
cancel_post ==
    /\ IF status = "none"
       THEN /\ Responds([op |-> "cancel", code |-> 404])
            /\ UNCHANGED status
       ELSE IF status \notin Cancellable
       THEN /\ Responds([op |-> "cancel", code |-> 400])
            /\ UNCHANGED status
       ELSE /\ status' = "cancelled"
            /\ Responds([op |-> "cancel", code |-> 200, status |-> "cancelled"])
    /\ UNCHANGED << error, result_path, fileVars, runVars, regenVars >>
    /\ UNCHANGED dirVars
    /\ UNCHANGED fnVars

(***************************************************************************)
(* GET /posts/{job_id}                                                     *)
(***************************************************************************)
\* get_post_status: every variant's image_path is set to the API url
PatchImagePaths(doc) ==
    IF doc = None \/ "post_variants" \notin DOMAIN doc THEN doc
    ELSE LET pv == doc.post_variants IN
         [doc EXCEPT !.post_variants =
            [i \in DOMAIN pv |-> [pv[i] EXCEPT !.image_path = ApiUrl(pv[i].id)]]]

\* a poll that reads the result file whatever the status is
IncludesResultAlways(st) == TRUE

\* get_post_status, `if job.status == "completed"`
IncludesResult(st) == st = "completed"

get_post_status ==
    /\ IF status = "none"
       THEN Responds([op |-> "get", code |-> 404])
       ELSE Responds([op |-> "get", code |-> 200, status |-> status, error |-> error,
                      result |-> IF IncludesResult(status)
                                 THEN PatchImagePaths(read_json(resultFile))
                                 ELSE EmptyDict])
    /\ UNCHANGED << jobVars, fileVars, runVars, regenVars >>
    /\ UNCHANGED dirVars
    /\ UNCHANGED fnVars

(***************************************************************************)
(* POST /posts/{job_id}/regenerate                                         *)
(***************************************************************************)
\* regenerate_post: validation, status check, status in_progress, then
\* asyncio.create_task(regenerate_content(...)) and
\* background_tasks.add_task(update_job_status(..., "completed"))
regenerate_post(scope, variant) ==
    /\ IF scope \notin Scopes \/ variant \notin VariantSet
       THEN /\ Responds([op |-> "regenerate", code |-> 400])
            /\ UNCHANGED << status, regenVars >>
       ELSE IF status = "none"
       THEN /\ Responds([op |-> "regenerate", code |-> 404])
            /\ UNCHANGED << status, regenVars >>
       ELSE IF status # "completed"
       THEN /\ Responds([op |-> "regenerate", code |-> 400])
            /\ UNCHANGED << status, regenVars >>
       ELSE /\ nRegen < MaxRegen
            /\ nRegen' = nRegen + 1
            /\ status' = "in_progress"
            /\ tasks' = tasks (+) SetToBag({[pc |-> "start", scope |-> scope,
                                              variant |-> variant, doc |-> None]})
            /\ pendingUpdates' = pendingUpdates + 1
            /\ Responds([op |-> "regenerate", code |-> 200])
    /\ UNCHANGED << error, result_path, fileVars, runVars >>
    /\ UNCHANGED dirVars
    /\ UNCHANGED fnVars

\* update_job_status(session, job_id, "completed"), run by the background
\* task of the response
update_job_status ==
    /\ pendingUpdates > 0
    /\ pendingUpdates' = pendingUpdates - 1
    /\ status' = "completed"
    /\ UNCHANGED << error, result_path, fileVars, runVars, tasks, nRegen >>
    /\ Silent
    /\ UNCHANGED dirVars
    /\ UNCHANGED fnVars

(***************************************************************************)
(* regenerate_content                                                      *)
(***************************************************************************)
\* variant_data.update(new_v) for the variant of the request
UpdateVariant(doc, variant, new_variants) ==
    LET pv == doc.post_variants IN
    [doc EXCEPT !.post_variants =
        [i \in DOMAIN pv |->
            IF pv[i].id = variant
            THEN LET j == CHOOSE n \in DOMAIN new_variants : new_variants[n].id = variant
                 IN new_variants[j]
            ELSE pv[i]]]

\* variant_data['image_path'] = API url
SetImagePath(doc, variant) ==
    LET pv == doc.post_variants IN
    [doc EXCEPT !.post_variants =
        [i \in DOMAIN pv |->
            IF pv[i].id = variant THEN [pv[i] EXCEPT !.image_path = ApiUrl(variant)]
            ELSE pv[i]]]

\* the task goes on from its await
Continues(t, pc, doc) ==
    /\ UNCHANGED nRegen
    /\ tasks' = (tasks (-) SetToBag({t})) (+)
                    SetToBag({[pc |-> pc, scope |-> t.scope, variant |-> t.variant,
                               doc |-> doc]})
    /\ Silent

\* the task returns
Returns(t, value) ==
    /\ tasks' = tasks (-) SetToBag({t})
    /\ UNCHANGED nRegen
    /\ regenRet' = value
    /\ response' = NoResponse

\* a text step taken for every regenerate type
RegeneratesTextAlways(scope) == TRUE

\* `if regenerate_type in ["text", "both"]`
RegeneratesText(scope) == scope \in {"text", "both"}

\* `if regenerate_type in ["image", "both"]`
RegeneratesImage(scope) == scope \in {"image", "both"}

\* up to the first await: read the result, find the variant, read the
\* summary (text, both); False if the result cannot be read or the summary
\* cannot be opened
regenerate_content_start(t) ==
    /\ BagIn(t, tasks)
    /\ t.pc = "start"
    /\ LET doc == read_json(resultFile) IN
       IF doc = None
       THEN Returns(t, "false")
       ELSE IF RegeneratesText(t.scope)
       THEN IF summaryFile = Absent
            THEN Returns(t, "false")
            ELSE Continues(t, "draft", doc)
       ELSE Continues(t, "image", doc)
    /\ UNCHANGED << jobVars, fileVars, runVars, pendingUpdates >>
    /\ UNCHANGED dirVars
    /\ UNCHANGED fnVars

\* generate_post_variants_with_langchain returns; with scope text the
\* result is saved and True returned
regenerate_content_draft(t, resp, fault) ==
    /\ BagIn(t, tasks)
    /\ t.pc = "draft"
    /\ LET new_variants == generate_post_variants_with_langchain(resp, "regen")
           doc == UpdateVariant(t.doc, t.variant, new_variants)
           w == save_json(resultFile, doc, fault)
       IN
       IF RegeneratesImage(t.scope)
       THEN /\ fault = "ok"
            /\ Continues(t, "image", doc)
            /\ UNCHANGED resultFile
       ELSE /\ resultFile' = w.file
            /\ Returns(t, "true")
    /\ UNCHANGED << jobVars, scrapeFile, summaryFile, imageFile, runVars, pendingUpdates >>
    /\ UNCHANGED dirVars
    /\ UNCHANGED fnVars

\* an image failure caught after the result has been saved with the new text
RegenImageRaisedAfterSave(t) ==
    /\ resultFile' = save_json(resultFile, t.doc, "ok").file
    /\ Returns(t, "false")
    /\ UNCHANGED imageFile

\* provider.generate_image raises; the handler of regenerate_content
\* returns False, nothing has been written
RegenImageRaised(t) ==
    /\ Returns(t, "false")
    /\ UNCHANGED << imageFile, resultFile >>

\* provider.generate_image returns or raises; the image and the result are
\* saved and True returned, or False on the exception
regenerate_content_image(t, outcome, fault, fault2) ==
    /\ BagIn(t, tasks)
    /\ t.pc = "image"
    /\ LET v == t.variant
           wi == save_image(imageFile[v], ImageData(outcome, "regen"), fault)
           doc == SetImagePath(t.doc, v)
           wr == save_json(resultFile, doc, fault2)
       IN
       IF outcome = "fail"
       THEN /\ fault = "ok" /\ fault2 = "ok"
            /\ RegenImageRaised(t)
       ELSE /\ imageFile' = [imageFile EXCEPT ![v] = wi.file]
            /\ resultFile' = wr.file
            /\ Returns(t, "true")
    /\ UNCHANGED << jobVars, scrapeFile, summaryFile, runVars, pendingUpdates >>
    /\ UNCHANGED dirVars
    /\ UNCHANGED fnVars

(***************************************************************************)
(* The system                                                              *)
(***************************************************************************)
ScopeInputs == Scopes \cup {"all"}
VariantInputs == VariantSet \cup {"C"}

\* the pipeline of one job: created, run, polled, cancelled.  The ports
\* return or raise and every write of run_job can fail.
NextRun ==
    \/ \E url \in Urls, a \in AttemptOutcomes : create_post(url, a, "ok")
    \/ run_job_start
    \/ \E o \in PortOutcomes, f \in WriteFaults : run_job_scrape(o, f)
    \/ \E f \in WriteFaults : run_job_summarize(PortText(SummaryAsAsked), f)
    \/ \E r \in DraftResponses : run_job_draft(r)
    \/ \E o \in PortOutcomes, f \in WriteFaults : generate_images_with_langchain(o, f)
    \/ \E a \in ModerationResponses, b \in ModerationResponses, f \in WriteFaults :
            run_job_moderate(a, b, f)
    \/ \E o \in PortOutcomes, f \in WriteFaults, g \in WriteFaults : run_job_sweep(o, f, g)
    \/ cancel_post
    \/ get_post_status

\* the regenerations of one job, polled and cancelled
NextRegen ==
    \/ \E s \in ScopeInputs, v \in VariantInputs : regenerate_post(s, v)
    \/ update_job_status
    \/ \E t \in BagToSet(tasks) : regenerate_content_start(t)
    \/ \E t \in BagToSet(tasks), r \in DraftResponses, f \in WriteFaults :
            regenerate_content_draft(t, r, f)
    \/ \E t \in BagToSet(tasks), o \in PortOutcomes, f \in WriteFaults, g \in WriteFaults :
            regenerate_content_image(t, o, f, g)
    \/ cancel_post
    \/ get_post_status

\* the pipeline of one job under every answer of the ports: text the Draft
\* Variants stage cannot parse, empty image bytes, exceptions.  The writes
\* of run_job succeed; the write of the metadata can fail.
NextPorts ==
    \/ \E url \in Urls, a \in AttemptOutcomes, f \in WriteFaults : create_post(url, a, f)
    \/ run_job_start
    \/ \E o \in PortOutcomes : run_job_scrape(o, "ok")
    \/ \E r \in {PortText(SummaryAsAsked), PortText(SummaryNull), PortRaises} :
            run_job_summarize(r, "ok")
    \/ \E r \in DraftOutcomes : run_job_draft(r)
    \/ \E o \in ImageOutcomes : generate_images_with_langchain(o, "ok")
    \/ \E a \in ModerationResponses, b \in ModerationResponses :
            run_job_moderate(a, b, "ok")
    \/ \E o \in ImageOutcomes : run_job_sweep(o, "ok", "ok")
    \/ cancel_post
    \/ get_post_status

\* The pipeline alone.  regenerate_post accepts a request only for a
\* completed job and only the last step of run_job completes a job that has
\* never been completed, so up to the return of run_job the behaviours of
\* Spec are those of SpecRun, with rejected regenerate requests added.
SpecRun == Init /\ [][NextRun]_vars

\* The pipeline with ports that answer anything and writes that succeed.
SpecPorts == Init /\ [][NextPorts]_vars

\* the result documents run_job writes when both variants pass moderation
RunDocs ==
    { MakeResult(generate_post_variants_with_langchain(r, "run"),
                 OverallStatus(<< ModerateOne("pass"), ModerateOne("pass") >>)) :
        r \in DraftResponses }

\* the states in which run_job leaves a job it has completed with no port
\* failure, no write failure and both variants passing moderation, before
\* any further request
InitRegen ==
    /\ jobDir = TRUE
    /\ metadataFile = [state |-> "complete", json |-> "metadata"]
    /\ scrapeCall = "ok"
    /\ draftCall \in DraftResponses
    /\ status = "completed"
    /\ error = ""
    /\ result_path = TRUE
    /\ scrapeFile = [state |-> "complete", json |-> "scrape_data"]
    /\ summaryFile = [state |-> "complete", text |-> "summary"]
    /\ result \in RunDocs
    /\ result.post_variants = generate_post_variants_with_langchain(draftCall, "run")
    /\ resultFile = [state |-> "complete", json |-> result]
    /\ imageFile = [v \in VariantSet |-> [state |-> "complete", bytes |-> "run"]]
    /\ runPc = "done"
    /\ variants = result.post_variants
    /\ imgIdx = 2
    /\ imgAttempt = 1
    /\ sweepTodo = << >>
    /\ imageCalls = [v \in VariantSet |-> << "ok" >>]
    /\ writeErrors = {}
    /\ tasks = EmptyBag
    /\ pendingUpdates = 0
    /\ nRegen = 0
    /\ regenRet = "none"
    /\ response = NoResponse
    /\ fnIn = NoCall
    /\ fnOut = NoOutput

\* The regenerations of a job that run_job has completed.
SpecRegen == InitRegen /\ [][NextRegen]_vars

(***************************************************************************)
(* The normalizer and moderate_content as functions                        *)
(***************************************************************************)
\* json.dumps of a string: the quote and the backslash are escaped
Escaped(s) ==
    LET F[i \in 0..Len(s)] ==
            IF i = 0 THEN << >>
            ELSE F[i - 1] \o (IF s[i] \in {DQ, BS} THEN << BS, s[i] >> ELSE << s[i] >>)
    IN F[Len(s)]

RECURSIVE Dumps(_)
\* json.dumps(value) with its default separators ", " and ": "
Dumps(x) ==
    CASE x.t = "str" -> << DQ >> \o Escaped(x.s) \o << DQ >>
      [] x.t = "num" -> x.s
      [] x.t = "bool" -> x.s
      [] x.t = "null" -> << "null" >>
      [] x.t = "arr" ->
            LET F[i \in 0..Len(x.items)] ==
                    IF i = 0 THEN << >>
                    ELSE F[i - 1] \o (IF i > 1 THEN << COMMA, SP >> ELSE << >>)
                                  \o Dumps(x.items[i])
            IN << LBRACK >> \o F[Len(x.items)] \o << RBRACK >>
      [] x.t = "obj" ->
            LET F[i \in 0..(Len(x.items) \div 2)] ==
                    IF i = 0 THEN << >>
                    ELSE F[i - 1] \o (IF i > 1 THEN << COMMA, SP >> ELSE << >>)
                                  \o Dumps(x.items[2 * i - 1]) \o << COLON, SP >>
                                  \o Dumps(x.items[2 * i])
            IN << LBRACE >> \o F[Len(x.items) \div 2] \o << RBRACE >>

\* the ways a model wraps its answer in a code fence
Wraps == {"none", "fence_json", "fence", "fence_inline"}

Fenced(text, wrap) ==
    CASE wrap = "none" -> text
      [] wrap = "fence_json" -> << BT, BT, BT, "json", NL >> \o text \o << NL, BT, BT, BT >>
      [] wrap = "fence" -> << BT, BT, BT, NL >> \o text \o << NL, BT, BT, BT >>
      [] wrap = "fence_inline" -> << BT, BT, BT, "json" >> \o text \o << BT, BT, BT >>

\* the serialized text with a single quote for every double quote
SingleQuoted(text) ==
    [i \in DOMAIN text |-> IF text[i] = DQ THEN SQ ELSE text[i]]

QuoteStyles == {"double", "single"}

Encoded(x, wrap, quotes) ==
    Fenced(IF quotes = "single" THEN SingleQuoted(Dumps(x)) ELSE Dumps(x), wrap)

\* strings without a quote character, and strings with one
PlainStrings == {<< >>, << "a" >>, << "b" >>, << "a", SP, "b" >>, << "true" >>,
                 << RBRACE >>, << LBRACK, "1" >>, << "a", BS, "b" >>}
QuotedStrings == {<< "a", SQ, "b" >>, << DQ, "a", DQ >>}
Strings == PlainStrings \cup QuotedStrings

Scalars == {Str(s) : s \in Strings} \cup {Num, Bool("true"), Bool("false"), PyNone}
FewScalars == {Str(<< "a" >>), Num, Bool("true"), PyNone}
Keys == {Str(s) : s \in {<< "a" >>, << "b" >>, << "a", SP, "b" >>, << "a", SQ, "b" >>}}

\* objects and arrays, nested once
FlatArrays ==
    {Arr(<< >>)} \cup {Arr(<< x >>) : x \in Scalars}
                 \cup {Arr(<< x, y >>) : x \in FewScalars, y \in FewScalars}
FlatObjects ==
    {Obj(<< >>)} \cup {Obj(<< k, x >>) : k \in Keys, x \in Scalars}
                 \cup {Obj(<< Str(<< "a" >>), x, Str(<< "b" >>), y >>) :
                          x \in FewScalars, y \in FewScalars}
Structured ==
    FlatArrays \cup FlatObjects
        \cup {Arr(<< x >>) : x \in FlatObjects}
        \cup {Obj(<< Str(<< "a" >>), x >>) : x \in FlatArrays}

\* texts that are no serialization of a structured value
OtherTexts ==
    { << >>, << SP >>, << "a" >>, << "1" >>, << "null" >>, << "None" >>, << "true" >>,
      << "True" >>, << DQ, "a", DQ >>, << SQ, "a", SQ >>, << BT, BT, BT >>,
      << LBRACE >>, << RBRACK, LBRACK >>, << LBRACK, "1", COMMA, RBRACK >>,
      << LBRACE, "1", COLON, "1", RBRACE >>,
      << LBRACE, LBRACK, RBRACK, COLON, "1", RBRACE >>,
      << LBRACE, DQ, "a", DQ, COLON, "1", COMMA, DQ, "a", DQ, COLON, "null", RBRACE >>,
      << "a", SP, LBRACE, DQ, "a", DQ, COLON, SP, "1", RBRACE, SP, "b" >>,
      << "a", LBRACK, "b", RBRACK, SP, LBRACE, DQ, "a", DQ, COLON, "1", RBRACE >>,
      << BT, BT, BT, "json", NL, "null", NL, BT, BT, BT >>,
      << BT, BT, BT, BT, NL, LBRACK, RBRACK >>,
      << LBRACK, DQ, "a", NL, DQ, RBRACK >> }

ExtractInputs ==
    {[op |-> "extract", text |-> Encoded(x, w, q), of |-> x, wrap |-> w, quotes |-> q,
      port |-> "returns",
      resps |-> << >>] : x \in Structured, w \in Wraps, q \in QuoteStyles}
    \cup {[op |-> "extract", text |-> t, of |-> NoValue, wrap |-> "none",
           quotes |-> "double", port |-> "returns",
      resps |-> << >>] : t \in OtherTexts}

ModerateInputs ==
    {[op |-> "moderate", text |-> << >>, of |-> NoValue, wrap |-> "none",
      quotes |-> "double", port |-> "returns",
      resps |-> << a, b >>] :
        a \in ModerationAnswers, b \in ModerationAnswers}

\* what the text port may do with the summary prompt
SummaryTexts ==
    { SummaryAsAsked, SummaryNull, << >>, << SP >>, << "a", SP, "b" >>,
      << LBRACE, DQ, "summary", DQ, COLON, SP, DQ, "a", DQ, RBRACE >>,
      << LBRACE, DQ, "summary", DQ, COLON, SP, "1", RBRACE >>,
      << LBRACE, DQ, "summary", DQ, COLON, SP, DQ, "a", DQ, COMMA, SP,
         DQ, "bullets", DQ, COLON, SP, DQ, "b", DQ, RBRACE >>,
      << LBRACE, DQ, "a", DQ, COLON, SP, "1", RBRACE >>,
      << LBRACK, DQ, "summary", DQ, RBRACK >>,
      << DQ, "summary", DQ >>,
      << "null" >>,
      Fenced(SummaryAsAsked, "fence_json"),
      Fenced(SingleQuoted(SummaryAsAsked), "fence"),
      << "a", SP >> \o SummaryAsAsked }

SummarizeInputs ==
    {[op |-> "summarize", text |-> t, of |-> NoValue, wrap |-> "none", quotes |-> "double",
      port |-> "returns", resps |-> << >>] : t \in SummaryTexts}
    \cup {[op |-> "summarize", text |-> << >>, of |-> NoValue, wrap |-> "none",
           quotes |-> "double", port |-> "raises", resps |-> << >>]}

\* one call of generate_summary_with_langchain
SummarizeCall ==
    /\ fnIn.op = "summarize"
    /\ fnOut = NoOutput
    /\ fnOut' = Returned(generate_summary_with_langchain(
                    IF fnIn.port = "raises" THEN PortRaises ELSE PortText(fnIn.text)))
    /\ UNCHANGED << fnIn, jobVars, fileVars, dirVars, runVars, regenVars, regenRet, response >>

\* what the requests of the reachability check would do, three per pass
ReachInputs ==
    {[op |-> "reach", text |-> << >>, of |-> NoValue, wrap |-> "none", quotes |-> "double",
      port |-> "returns", resps |-> r] : r \in [1..(3 * ReachAttempts) -> RequestOutcomes]}

\* the reachability check of one create_job
ReachCall ==
    /\ fnIn.op = "reach"
    /\ fnOut = NoOutput
    /\ LET r == ReachabilityLoop(fnIn.resps, 1, << >>) IN
       fnOut' = [kind |-> IF r.reachable THEN "value" ELSE "ValueError",
                 val |-> NoValue, mod |-> NoVerdicts, log |-> r.log]
    /\ UNCHANGED << fnIn, jobVars, fileVars, dirVars, runVars, regenVars, regenRet, response >>

\* one call of _extract_json_from_text
ExtractCall ==
    /\ fnIn.op = "extract"
    /\ fnOut = NoOutput
    /\ fnOut' = extract_json_from_text(fnIn.text)
    /\ UNCHANGED << fnIn, jobVars, fileVars, dirVars, runVars, regenVars, regenRet, response >>

\* one call of moderate_content for the variants A and B
ModerateCall ==
    /\ fnIn.op = "moderate"
    /\ fnOut = NoOutput
    /\ fnOut' = [kind |-> "value", val |-> NoValue,
                 mod |-> moderate_content(<< "A", "B" >>, fnIn.resps), log |-> << >>]
    /\ UNCHANGED << fnIn, jobVars, fileVars, dirVars, runVars, regenVars, regenRet, response >>

NextFunctions == ExtractCall \/ ModerateCall \/ SummarizeCall \/ ReachCall

InitFunctions ==
    /\ NoJob
    /\ fnIn \in ExtractInputs \cup ModerateInputs \cup SummarizeInputs \cup ReachInputs
    /\ fnOut = NoOutput

\* Single calls of the two functions, on every input of the sets above.
SpecFunctions == InitFunctions /\ [][NextFunctions]_vars

Next == NextRun \/ NextPorts \/ NextRegen \/ NextFunctions

\* the whole system
Spec == Init /\ [][Next]_vars

(***************************************************************************)
(* Claims                                                                  *)
(***************************************************************************)
Running == {"scrape", "summarize", "draft", "images", "moderate", "sweep"}

\* the transitions of the table of the job state machine
TransitionTable ==
    { << "none", "queued" >>,
      << "queued", "in_progress" >>,
      << "queued", "cancelled" >>,
      << "in_progress", "cancelled" >>,
      << "in_progress", "completed" >>,
      << "in_progress", "failed" >>,
      << "completed", "in_progress" >> }

\* C1: the job is created queued and every change of its status is a
\* transition of the table; a cancelled or failed job never changes status.
C1_StatusFollowsTable ==
    [][status' # status => << status, status' >> \in TransitionTable]_vars

\* the call run_job is waiting for
RunCall == << runPc, imgIdx, imgAttempt, Len(sweepTodo) >>

\* C2: while the status is cancelled and run_job is inside a stage, run_job
\* may finish the call in flight but starts no further call: it returns.
C2_NoStageAfterCancel ==
    [][(status = "cancelled" /\ runPc \in Running /\ RunCall' # RunCall)
          => runPc' = "done"]_vars

\* C3: at most one run_job or regenerate_content execution of the job is
\* unfinished at any time.
C3_OneExecutionPerJob ==
    BagCardinality(tasks) + (IF runPc \in Running THEN 1 ELSE 0) <= 1

\* C4: the status goes from in_progress back to completed only when no
\* regenerate_content execution is unfinished.
C4_CompletedAfterRegeneration ==
    [][(status = "in_progress" /\ status' = "completed") => tasks = EmptyBag]_vars

\* C5: a poll returns an empty result or the document of the result file
\* exactly as a complete write left it.
C5_PollReturnsWholeDocument ==
    (response.op = "get" /\ response.code = 200) =>
        \/ response.result \in {EmptyDict, None}
        \/ /\ resultFile.state = "complete"
           /\ response.result = resultFile.json

\* C5 witness: a poll between the writes of two regenerations returns the
\* document the first one wrote
C5_Witness ==
    /\ response.op = "get"
    /\ response.code = 200
    /\ response.result \notin {EmptyDict, None}
    /\ \E i \in 1..2 : response.result.post_variants[i].text \in {"regen_A", "regen_B"}
    /\ tasks # EmptyBag

\* C6: a completed job has a readable result document.
C6_CompletedHasResult ==
    status = "completed" => read_json(resultFile) # None

\* C7: a completed job has the image file of each of its two variants.
C7_CompletedHasImages ==
    status = "completed" => \A v \in VariantSet : imageFile[v].state # "absent"

\* C7 witness: a job completed after the sweep regenerated a missing image
C7_Witness ==
    /\ status = "completed"
    /\ runPc = "done"
    /\ \E v \in VariantSet : imageFile[v] = [state |-> "complete", bytes |-> "sweep"]

\* C8 as stated: two failed image calls for a variant fail the job.
C8_FailsTwiceThenFailed ==
    (runPc = "done" /\ \E v \in VariantSet :
        /\ Len(imageCalls[v]) >= 2
        /\ imageCalls[v][1] = "fail"
        /\ imageCalls[v][2] = "fail")
    => status = "failed"

\* C8 amended: when the image port fails for a variant on the first call, on
\* the fallback call and on the retry of the sweep, run_job ends with the
\* job failed and an error recorded.
C8_FailsThriceThenFailed ==
    (runPc = "done" /\ \E v \in VariantSet : imageCalls[v] = << "fail", "fail", "fail" >>)
    => (status = "failed" /\ error # "")

\* C8 witness: run_job has returned after three failed calls for a variant
C8_Witness ==
    /\ runPc = "done"
    /\ \E v \in VariantSet : imageCalls[v] = << "fail", "fail", "fail" >>

\* the image reference of variant v in a result document
ImageRef(doc, v) ==
    LET i == CHOOSE n \in DOMAIN doc.post_variants : doc.post_variants[n].id = v
    IN doc.post_variants[i].image_path

\* a variant whose first image call failed and whose second succeeded
FailedOnce(v) ==
    /\ Len(imageCalls[v]) >= 2
    /\ imageCalls[v][1] = "fail"
    /\ imageCalls[v][2] = "ok"

\* no image call failed but the first one of a variant
OnlyFirstCallsFail ==
    \A v \in VariantSet : \A i \in 2..Len(imageCalls[v]) : imageCalls[v][i] = "ok"

\* C9: when the image port fails once for a variant and succeeds on the next
\* call, no other image call but a first one fails and no write fails,
\* run_job ends with the job completed, the variant's image written and its
\* reference in the result document the API url.
C9_FailsOnceThenCompleted ==
    (runPc = "done" /\ writeErrors = {} /\ OnlyFirstCallsFail
        /\ \E v \in VariantSet : FailedOnce(v))
    => /\ status = "completed"
       /\ resultFile.state = "complete"
       /\ \A v \in VariantSet :
            /\ imageFile[v].state = "complete"
            /\ ImageRef(resultFile.json, v) = ApiUrl(v)

\* C9 witness: run_job has returned after one failed and one successful call
C9_Witness ==
    /\ runPc = "done"
    /\ writeErrors = {}
    /\ imageCalls["A"] = << "fail", "ok" >>
    /\ imageCalls["B"] = << "ok" >>

\* C10: when a write of an artifact failed during run_job, the job ends
\* failed with an error recorded.
C10_WriteFailureFailsJob ==
    (runPc = "done" /\ writeErrors # {}) => (status = "failed" /\ error # "")

\* the entry of variant v in the document of a result file, None when the
\* file holds no document
Entry(file, v) ==
    IF file.state # "complete" THEN None
    ELSE LET pv == file.json.post_variants
             i == CHOOSE n \in DOMAIN pv : pv[n].id = v
         IN pv[i]

\* what a result file holds beside the variants
Frame(file) ==
    IF file.state # "complete" THEN None
    ELSE [provenance |-> file.json.provenance, providers |-> file.json.providers,
          moderation |-> file.json.moderation]

Other(v) == CHOOSE w \in VariantSet : w # v

\* C11: the result file changes only in a step in which a
\* regenerate_content returns True; no step of a call that returns False,
\* whatever its scope and variant and wherever it fails, writes it.
C11_FailureLeavesResult ==
    [][resultFile' # resultFile => regenRet' = "true"]_vars

\* C11 witness: the first regeneration of the job has returned False (its
\* image call raised) and the result document is the one run_job wrote
C11_Witness ==
    /\ regenRet = "false"
    /\ nRegen = 1
    /\ resultFile = [state |-> "complete", json |-> result]

\* C12: the step in which a regenerate_content for variant v returns, its
\* write of the result document having succeeded, leaves the other variant's
\* entry of the document, its provenance, providers and moderation, and the
\* other variant's image file as they were.
C12_OnlyTargetVariantChanges ==
    [][\A t \in BagToSet(tasks) :
          (tasks' = tasks (-) SetToBag({t}) /\ regenRet' # "none"
                /\ resultFile'.state = "complete")
          => /\ Entry(resultFile', Other(t.variant)) = Entry(resultFile, Other(t.variant))
             /\ Frame(resultFile') = Frame(resultFile)
             /\ imageFile'[Other(t.variant)] = imageFile[Other(t.variant)]]_vars

\* C13: a cancel request is answered 200 exactly when the status is queued
\* or in_progress, and the status is then cancelled; in every other status,
\* and for an unknown job, it is answered with an error and the job record
\* is unchanged.
C13_CancelOnlyWhenActive ==
    [][response'.op = "cancel" =>
          IF status \in {"queued", "in_progress"}
          THEN /\ response'.code = 200
               /\ status' = "cancelled"
               /\ UNCHANGED << error, result_path >>
          ELSE /\ response'.code \in {400, 404}
               /\ UNCHANGED jobVars]_vars

\* C13 witness: a cancel of a completed job has been rejected
C13_Witness ==
    /\ response.op = "cancel"
    /\ response.code = 400
    /\ status = "completed"

\* C14: a regenerate request answered 200 found the job completed and starts
\* one regenerate_content with a scope of text, image, both and a variant of
\* A, B; every other request is answered with an error, starts nothing and
\* leaves the status and the result file unchanged.
C14_RegenerateOnlyWhenValid ==
    [][response'.op = "regenerate" =>
          \/ /\ response'.code = 200
             /\ status = "completed"
             /\ \E s \in {"text", "image", "both"}, v \in {"A", "B"} :
                   tasks' = tasks (+) SetToBag({[pc |-> "start", scope |-> s,
                                                  variant |-> v, doc |-> None]})
          \/ /\ response'.code \in {400, 404}
             /\ UNCHANGED << jobVars, fileVars, tasks, pendingUpdates >>]_vars

\* C14 witness: a regenerate request has been rejected while the status is
\* in_progress and a regenerate_content is unfinished
C14_Witness ==
    /\ response.op = "regenerate"
    /\ response.code = 400
    /\ status = "in_progress"
    /\ tasks # EmptyBag

\* C15: when create_post has answered with an error there is no Job row, no
\* job directory, no metadata file and no scheduled run_job.
C15_RejectedCreatePersistsNothing ==
    (response.op = "create" /\ response.code # 200)
    => /\ status = "none"
       /\ jobDir = FALSE
       /\ metadataFile = Absent
       /\ runPc = "idle"

\* C15 witness: a request has been rejected after three failed attempts of
\* the reachability check
C15_Witness ==
    /\ response.op = "create"
    /\ response.code = 400
    /\ response.detail = "URL reachability check failed"

\* the document has exactly the variants A and B, in this order
TwoVariants(doc) ==
    /\ Len(doc.post_variants) = 2
    /\ doc.post_variants[1].id = "A"
    /\ doc.post_variants[2].id = "B"

\* the required fields of a variant are populated
Populated(v) ==
    /\ v.text # ""
    /\ v.hashtags > 0
    /\ v.suggested_comment # ""
    /\ v.alt_text # ""
    /\ v.image_path # ""

\* C16: the result document of a completed job has exactly the variants A
\* and B, each with text, hashtags, suggested_comment, alt_text and image
\* reference populated.
C16_TwoPopulatedVariants ==
    (status = "completed" /\ resultFile.state = "complete")
    => /\ TwoVariants(resultFile.json)
       /\ \A i \in 1..2 : Populated(resultFile.json.post_variants[i])

\* C17: every variant of the result document of a completed job has exactly
\* 3 hashtags.
C17_ThreeHashtags ==
    (status = "completed" /\ resultFile.state = "complete")
    => \A i \in DOMAIN resultFile.json.post_variants :
            resultFile.json.post_variants[i].hashtags = 3

\* every image reference of the document is the API url of its variant
ApiReferences(doc) ==
    \A i \in DOMAIN doc.post_variants :
        doc.post_variants[i].image_path =
            "/api/v1/images/job/" \o doc.post_variants[i].id \o ".png"

\* C18: in every result document on disk and in every document a poll
\* returns, each variant's image reference is /api/v1/images/{job}/{id}.png.
C18_ImageReferenceIsApiUrl ==
    /\ resultFile.state = "complete" => ApiReferences(resultFile.json)
    /\ (response.op = "get" /\ response.code = 200
            /\ response.result \notin {EmptyDict, None})
       => ApiReferences(response.result)

\* C18 witness: a poll returns the document of a job whose image of A was
\* regenerated by the sweep of run_job
C18_Witness ==
    /\ response.op = "get"
    /\ response.code = 200
    /\ response.result \notin {EmptyDict, None}
    /\ imageFile["A"] = [state |-> "complete", bytes |-> "sweep"]

\* C19: a failed job has a non-empty error.
C19_FailedHasError ==
    status = "failed" => error # ""

\* C19 witness: run_job has failed the job because an image is still missing
\* after the sweep
C19_Witness ==
    /\ status = "failed"
    /\ runPc = "done"
    /\ \E v \in VariantSet : imageFile[v] = Absent /\ Len(imageCalls[v]) = 3

\* C20: once scrape_url has failed, run_job has returned, the job is failed
\* with an error, no later stage has run and there is no scrape, summary or
\* result file.
C20_FetchFailureIsFatal ==
    scrapeCall = "fail"
    => /\ runPc = "done"
       /\ status = "failed"
       /\ error # ""
       /\ scrapeFile = Absent
       /\ summaryFile = Absent
       /\ resultFile = Absent
       /\ variants = << >>
       /\ result = None
       /\ \A v \in VariantSet : imageCalls[v] = << >> /\ imageFile[v] = Absent

\* C20 witness: a poll after scrape_url failed reports the job failed
C20_Witness ==
    /\ scrapeCall = "fail"
    /\ response.op = "get"
    /\ response.status = "failed"

\* the text port gave Draft Variants nothing it can parse
DraftUnparsable == draftCall \in {"garbage", "empty", "raises"}

\* scrape_url returned, every image call returned image bytes, no write failed
OtherStagesSucceed ==
    /\ scrapeCall = "ok"
    /\ writeErrors = {}
    /\ \A v \in VariantSet : \A i \in DOMAIN imageCalls[v] : imageCalls[v][i] = "ok"

\* the two fallback variants
AreFallbackVariants(vs) ==
    /\ Len(vs) = 2
    /\ vs[1].id = "A" /\ vs[1].text = "fallback_A"
    /\ vs[2].id = "B" /\ vs[2].text = "fallback_B"

\* C21: when the text port answers the Draft Variants prompt with text that
\* is no JSON, with nothing or with an exception, run_job goes on with the
\* two fallback variants, and with the other stages succeeding it ends with
\* the job completed and these variants in the result document.
C21_UnparsableDraftFallsBack ==
    DraftUnparsable
    => /\ AreFallbackVariants(variants)
       /\ runPc \in {"images", "moderate", "sweep", "done"}
       /\ (runPc = "done" /\ OtherStagesSucceed)
          => /\ status = "completed"
             /\ resultFile.state = "complete"
             /\ AreFallbackVariants(resultFile.json.post_variants)

\* C21 witness: run_job has completed a job whose Draft Variants call raised
C21_Witness ==
    /\ draftCall = "raises"
    /\ runPc = "done"
    /\ OtherStagesSucceed
    /\ status = "completed"

\* C22: whenever the result file exists, the scrape file and the summary
\* file exist.
C22_ResultAfterScrapeAndSummary ==
    Exists(resultFile) => (Exists(scrapeFile) /\ Exists(summaryFile))

\* the elements of a sequence
Range(seq) == {seq[i] : i \in DOMAIN seq}

C26_EmptyBytesAreFatal ==
    (\E v \in VariantSet :
        /\ imageCalls[v] # << >>
        /\ \A i \in DOMAIN imageCalls[v] : imageCalls[v][i] = "empty")
    => status # "completed"

\* C27: Draft Variants returns the parsed variants only for an answer whose
\* entries A and B carry the four fields with a text; for entries without
\* them, for text that is no JSON, for nothing and for an exception it
\* returns the two fallback variants.
C27_DraftAcceptsOnlyCompleteEntries ==
    draftCall \in {"json_bare", "garbage", "empty", "raises"}
    => AreFallbackVariants(variants)

\* the fields of a variant that Draft Variants writes
TextFields(v) ==
    << v.text, v.hashtags, v.suggested_comment, v.alt_text >>

\* the entry of variant v in a document
DocEntry(doc, v) ==
    LET i == CHOOSE n \in DOMAIN doc.post_variants : doc.post_variants[n].id = v
    IN doc.post_variants[i]

\* the task makes a step
Steps(t) == CopiesIn(t, tasks') < CopiesIn(t, tasks)

C23_ExtractionIsTotal ==
    fnIn.op = "extract" /\ fnOut # NoOutput
        => \/ fnOut.kind = "ValueError"
           \/ fnOut.kind = "value" /\ fnOut.val.t # "null"

RECURSIVE QuoteFree(_)
\* no string of the value, key or not, holds a single or a double quote
QuoteFree(x) ==
    /\ \A i \in DOMAIN x.s : x.s[i] \notin {SQ, DQ}
    /\ \A i \in DOMAIN x.items : QuoteFree(x.items[i])

\* C24 as stated: for every object or array, extraction from its
\* serialization, wrapped in a code fence or not and with single quotes for
\* the double quotes or not, returns a value equal to it.
C24_RoundTrip ==
    fnIn.op = "extract" /\ fnIn.of # NoValue /\ fnOut # NoOutput
        => fnOut = Returned(fnIn.of)

\* C24 amended: extraction returns a value equal to the original for every
\* object or array under code-fence wrapping, and under single-quote
\* substitution for every object or array whose strings hold no single and
\* no double quote.
C24_RoundTripQuoteFree ==
    fnIn.op = "extract" /\ fnIn.of # NoValue /\ fnOut # NoOutput
            /\ (fnIn.quotes = "double" \/ QuoteFree(fnIn.of))
        => fnOut = Returned(fnIn.of)

\* C24 witness: {"a": true}, fenced and single-quoted, has come back; only
\* the last resort of the normalizer parses that text
C24_Witness ==
    /\ fnIn.op = "extract"
    /\ fnIn.of = Obj(<< Str(<< "a" >>), Bool("true") >>)
    /\ fnIn.wrap = "fence_json"
    /\ fnIn.quotes = "single"
    /\ fnOut = Returned(fnIn.of)

\* C29: moderate_content returns one verdict per variant, for A and for B,
\* and the verdict of a variant whose response is empty or cannot be parsed
\* is review with confidence low; it never raises.
C29_OneVerdictPerVariant ==
    fnIn.op = "moderate" /\ fnOut # NoOutput
        => /\ fnOut.kind = "value"
           /\ Len(fnOut.mod.variants) = 2
           /\ \A i \in 1..2 :
                /\ fnOut.mod.variants[i].variant_id = << "A", "B" >>[i]
                /\ fnIn.resps[i] \in {"empty", "garbage"}
                    => /\ fnOut.mod.variants[i].status = "review"
                       /\ fnOut.mod.variants[i].confidence = "low"

\* C30: the status moderate_content returns for the job is the most severe
\* of the statuses of its verdicts: reject if one is reject, otherwise review
\* if one is review, and pass only if all of them are pass.
C30_AggregateIsMostSevere ==
    fnIn.op = "moderate" /\ fnOut # NoOutput
        => LET S == {fnOut.mod.variants[i].status : i \in DOMAIN fnOut.mod.variants} IN
           /\ fnOut.mod.status = IF "reject" \in S THEN "reject"
                                 ELSE IF "review" \in S THEN "review"
                                 ELSE "pass"
           /\ fnOut.mod.status = "pass" => S = {"pass"}

\* C31: generate_summary_with_langchain returns, for everything the text port
\* does, a record with a summary string and a list of bullets; for a text
\* that does not parse into an object with the key summary the record is the
\* raw text with exactly three placeholder bullets.
C31_SummarizeAlwaysYieldsSummary ==
    fnIn.op = "summarize" /\ fnOut # NoOutput
        => /\ fnOut.kind = "value"
           /\ fnOut.val.t = "obj"
           /\ Get(fnOut.val, "summary", NoValue).t = "str"
           /\ Get(fnOut.val, "bullets", NoValue).t = "arr"
           /\ LET parsed == extract_json_from_text(fnIn.text) IN
              fnIn.port = "returns"
                    /\ ~(parsed.kind = "value" /\ parsed.val.t = "obj"
                            /\ HasKey(parsed.val, "summary"))
                => /\ Get(fnOut.val, "summary", NoValue) = Str(fnIn.text)
                   /\ Len(Get(fnOut.val, "bullets", NoValue).items) = 3

\* the number of GET requests among the requests of one pass
Gets(requests) == Cardinality({j \in DOMAIN requests : requests[j] = "GET"})

\* C32: the reachability check makes at most 3 attempts, each a HEAD request
\* followed by at most one GET; it ends with the first attempt that gets a
\* status below 400 and declares the url unreachable only after 3 failed
\* attempts; the failed attempts 1, 2 and 3 are followed by waits of 1, 2 and
\* 3 seconds.
C32_ReachabilityAttempts ==
    fnIn.op = "reach" /\ fnOut # NoOutput
        => /\ Len(fnOut.log) <= 3
           /\ \A i \in DOMAIN fnOut.log :
                /\ fnOut.log[i].attempt = i
                /\ fnOut.log[i].requests[1] = "HEAD"
                /\ Gets(fnOut.log[i].requests) <= 1
                /\ Len(fnOut.log[i].requests) <= 2
                /\ fnOut.log[i].sleep = (IF fnOut.kind = "value" /\ i = Len(fnOut.log)
                                         THEN 0 ELSE i)
           /\ fnOut.kind = "ValueError" => Len(fnOut.log) = 3

\* the positions of run_job after each stage
AfterFetch == {"summarize", "draft", "images", "moderate", "sweep"}
AfterSummarize == {"draft", "images", "moderate", "sweep"}

\* C33: run_job runs its stages in the order fetch, summarize, draft
\* variants, generate images, moderate, persist result, each once and each
\* only after the artifact of the one before is written: while summarize or
\* a later stage runs the scrape file is completely written, and while draft
\* variants or a later stage runs the summary file is.
C33_StagesFollowWrittenArtifacts ==
    /\ runPc \in AfterFetch => scrapeFile.state = "complete"
    /\ runPc \in AfterSummarize => summaryFile.state = "complete"
    /\ runPc = "sweep" => resultFile.state = "complete"

\* C34: the step in which run_job sets the job to failed leaves every
\* artifact that an earlier stage wrote completely as it is: the scrape
\* file, the summary file (unless the failing stage is summarize, which
\* writes it), the image files and the result file.
C34_FailureKeepsArtifacts ==
    [][status' = "failed" /\ status # "failed"
        => /\ scrapeFile' = scrapeFile
           /\ runPc # "summarize" => summaryFile' = summaryFile
           /\ resultFile.state = "complete" => resultFile' = resultFile
           /\ \A v \in VariantSet :
                imageFile[v].state = "complete" => imageFile'[v] = imageFile[v]]_vars

\* C35: in the result document of a completed job the text of every variant
\* is non-empty and has at most 1300 characters.
C35_PostTextWithinLimits ==
    status = "completed" /\ resultFile.state = "complete"
        => \A i \in DOMAIN resultFile.json.post_variants :
              /\ resultFile.json.post_variants[i].text # ""
              /\ ~TooLong(resultFile.json.post_variants[i].text)

\* C36: when regenerations of A and of B of one completed job have both been
\* accepted and both return True, the result document holds both regenerated
\* variants: the write of a regeneration that returns True never replaces
\* the regenerated text of the other variant by an older one.
C36_BothRegenerationsKept ==
    [][\A t \in BagToSet(tasks) :
          (Steps(t) /\ regenRet' = "true"
                /\ resultFile.state = "complete" /\ resultFile'.state = "complete")
          => \A w \in VariantSet \ {t.variant} :
                DocEntry(resultFile.json, w).text = "regen_" \o w
                    => DocEntry(resultFile'.json, w).text = "regen_" \o w]_vars

\* C37: regenerate_content returns True only if its write of the result
\* document has succeeded and, for type image or both, its write of the
\* image file has.
C37_RegenerateTrueMeansWritten ==
    [][\A t \in BagToSet(tasks) :
          (Steps(t) /\ regenRet' = "true")
          => /\ resultFile'.state = "complete"
             /\ RegeneratesImage(t.scope)
                  => imageFile'[t.variant] = [state |-> "complete", bytes |-> "regen"]]_vars

\* C38: a poll returns a non-empty result only for a job whose status is
\* completed; for a job that is queued, in_progress, failed or cancelled the
\* result is empty, whether or not the result file exists.
C38_ResultOnlyWhenCompleted ==
    (response.op = "get" /\ response.code = 200 /\ response.status # "completed")
        => response.result = EmptyDict

\* C38 witness: a poll of a job that the sweep failed after the result file
\* was written is answered with an empty result
C38_Witness ==
    /\ response.op = "get"
    /\ response.code = 200
    /\ response.status = "failed"
    /\ resultFile.state = "complete"
    /\ response.result = EmptyDict

\* C39: the error of a job is non-empty only while its status is failed.
C39_ErrorOnlyWhenFailed ==
    error # "" => status = "failed"

\* C39 witness: a job cancelled while run_job is at work has no error
C39_Witness ==
    /\ status = "cancelled"
    /\ runPc \in Running
    /\ error = ""
====
